---- MODULE Spec2Model ----
(***************************************************************************)
(* Model of QR.py: DataEncoder (bit-stream construction), ReedSolomon      *)
(* (placeholder redundancy), MatrixConstructor (grid construction) and     *)
(* QRCode.generate (the pipeline).                                         *)
(*                                                                         *)
(* A text is a sequence of Unicode code points.  A grid is a function      *)
(* matrix[y][x] over 0..size-1, as the list of lists of the source.        *)
(***************************************************************************)
EXTENDS Integers, Sequences, FiniteSets, TLC

VARIABLES
    version,      \* self.version of the object under test
    level,        \* self.error_correction
    heap,         \* the grid objects allocated so far, by reference (index)
    self_matrix,  \* MatrixConstructor.matrix: a reference into heap (0: no constructor)
    returned,     \* the references returned by the generate calls that returned
    calls,        \* number of generate / encode calls made
    text,         \* argument of the last call
    encoded,      \* outcome of the last DataEncoder.encode: [raised, bits]
    data,         \* output of the last ReedSolomon.encode
    steps,        \* the grid after each step of the last build_matrix
    outcome       \* "new", "returned" or "ValueError": how the last call ended

vars == <<version, level, heap, self_matrix, returned, calls, text, encoded, data, steps, outcome>>

-----------------------------------------------------------------------------
(* Bounds *)

\* generate calls made on one QRCode object
MaxCalls == 2

\* length of the enumerated texts given to a DataEncoder
MaxLen == 6

-----------------------------------------------------------------------------
(* Characters: Python str semantics on the modelled code points *)

\* '0', '7', 'A', SUPERSCRIPT TWO (U+00B2)
Alphabet == {48, 55, 65, 178}

\* one character of str.isdigit(): Numeric_Type Decimal or Digit
IsDigitChar(c) == c \in 48..57 \/ c \in 1632..1641 \/ c \in {178, 179, 185}

\* the characters int() accepts as a digit: Numeric_Type Decimal only
IsDecimalChar(c) == c \in 48..57 \/ c \in 1632..1641

DigitValue(c) == IF c \in 48..57 THEN c - 48 ELSE c - 1632

\* str.isdigit(): every character is a digit and there is at least one
isdigit(s) == Len(s) > 0 /\ \A i \in 1..Len(s) : IsDigitChar(s[i])

\* int(s) raises ValueError unless it holds decimal digits only
IntAccepts(s) == Len(s) > 0 /\ \A i \in 1..Len(s) : IsDecimalChar(s[i])

RECURSIVE IntOf(_)
IntOf(s) ==
    IF s = << >> THEN 0
    ELSE 10 * IntOf(SubSeq(s, 1, Len(s) - 1)) + DigitValue(s[Len(s)])

\* str.encode('utf-8') of one code point
Utf8Char(c) ==
    IF c < 128 THEN <<c>>
    ELSE IF c < 2048 THEN <<192 + (c \div 64), 128 + (c % 64)>>
    ELSE <<224 + (c \div 4096), 128 + ((c \div 64) % 64), 128 + (c % 64)>>

RECURSIVE Utf8(_)
Utf8(s) == IF s = << >> THEN << >> ELSE Utf8Char(Head(s)) \o Utf8(Tail(s))

-----------------------------------------------------------------------------
(* DataEncoder *)

Levels == {"L", "M", "Q", "H"}

get_capacity(v, ec) ==
    IF v = 1 /\ ec = "L" THEN 41
    ELSE IF v = 1 /\ ec = "M" THEN 34
    ELSE IF v = 1 /\ ec = "Q" THEN 27
    ELSE IF v = 1 /\ ec = "H" THEN 17
    ELSE 100

get_character_count_bits(v, ec) ==
    IF 1 <= v /\ v <= 9
    THEN (IF ec \in {"L", "M"} THEN 10 ELSE 8)
    ELSE 12

RECURSIVE BinDigits(_)
BinDigits(n) == IF n < 2 THEN <<n>> ELSE Append(BinDigits(n \div 2), n % 2)

\* mutant: the binary digits without the zero padding
number_to_bits_unpadded(number, bit_length) == BinDigits(number)

\* format(number, '0{bit_length}b'): at least bit_length digits, more if needed
number_to_bits(number, bit_length) ==
    LET b == BinDigits(number)
    IN  IF Len(b) >= bit_length THEN b
        ELSE [i \in 1..(bit_length - Len(b)) |-> 0] \o b

Raised == [raised |-> TRUE, bits |-> << >>]

PadPattern == <<1, 1, 1, 0, 1, 1, 0, 0>>

RECURSIVE PadToCapacity(_, _)
PadToCapacity(result, capacity) ==
    IF Len(result) < capacity
    THEN PadToCapacity(result \o PadPattern, capacity)
    ELSE result

\* result[:capacity]
Truncate(result, capacity) ==
    SubSeq(result, 1, IF Len(result) < capacity THEN Len(result) ELSE capacity)

\* the while loop of _encode_numeric from index i (0-based) on
RECURSIVE NumericLoop(_, _, _)
NumericLoop(d, i, result) ==
    IF ~(i < Len(d)) THEN [raised |-> FALSE, bits |-> result]
    ELSE IF i + 3 <= Len(d)
         THEN IF IntAccepts(SubSeq(d, i + 1, i + 3))
              THEN NumericLoop(d, i + 3,
                       result \o number_to_bits(IntOf(SubSeq(d, i + 1, i + 3)), 10))
              ELSE Raised
    ELSE IF i + 2 <= Len(d)
         THEN IF IntAccepts(SubSeq(d, i + 1, i + 2))
              THEN NumericLoop(d, i + 2,
                       result \o number_to_bits(IntOf(SubSeq(d, i + 1, i + 2)), 7))
              ELSE Raised
    ELSE IF IntAccepts(<<d[i + 1]>>)
         THEN NumericLoop(d, i + 1, result \o number_to_bits(IntOf(<<d[i + 1]>>), 4))
         ELSE Raised

encode_numeric(v, ec, d) ==
    LET head == <<0, 0, 0, 1>> \o number_to_bits(Len(d), get_character_count_bits(v, ec))
        body == NumericLoop(d, 0, head)
    IN  IF body.raised THEN Raised
        ELSE [raised |-> FALSE,
              bits |-> Truncate(PadToCapacity(body.bits \o <<0, 0, 0, 0>>,
                                              get_capacity(v, ec)),
                                get_capacity(v, ec))]

RECURSIVE BytesToBits(_)
BytesToBits(bs) ==
    IF bs = << >> THEN << >>
    ELSE number_to_bits(Head(bs), 8) \o BytesToBits(Tail(bs))

encode_byte(v, ec, d) ==
    LET bs == Utf8(d)
        result == <<0, 1, 0, 0>>
                  \o number_to_bits(Len(bs), get_character_count_bits(v, ec))
                  \o BytesToBits(bs)
                  \o <<0, 0, 0, 0>>
    IN  [raised |-> FALSE,
         bits |-> Truncate(PadToCapacity(result, get_capacity(v, ec)),
                           get_capacity(v, ec))]

encode(v, ec, d) ==
    IF isdigit(d) THEN encode_numeric(v, ec, d) ELSE encode_byte(v, ec, d)

-----------------------------------------------------------------------------
(* ReedSolomon *)

\* data + data[:10]
rs_encode(d) == d \o SubSeq(d, 1, IF Len(d) < 10 THEN Len(d) ELSE 10)

-----------------------------------------------------------------------------
(* MatrixConstructor *)

calculate_size(v) == (v - 1) * 4 + 21

\* [[False] * size for _ in range(size)]
new_matrix(size) == [y \in 0..(size - 1) |-> [x \in 0..(size - 1) |-> FALSE]]

\* the three (x, y) origins of patterns_pos
FinderOrigins(size) == {<<0, 0>>, <<size - 7, 0>>, <<0, size - 7>>}

\* mutant: the inner core one row short
FinderCell_short_core(i, j) ==
    IF i = 0 \/ i = 6 \/ j = 0 \/ j = 6 THEN TRUE
    ELSE IF (2 <= i /\ i <= 4) /\ (2 <= j /\ j <= 3) THEN TRUE
    ELSE FALSE

\* value written at offsets (i, j) of a finder block
FinderCell(i, j) ==
    IF i = 0 \/ i = 6 \/ j = 0 \/ j = 6 THEN TRUE
    ELSE IF (2 <= i /\ i <= 4) /\ (2 <= j /\ j <= 4) THEN TRUE
    ELSE FALSE

InFinderBlock(p, x, y) == (x - p[1]) \in 0..6 /\ (y - p[2]) \in 0..6

\* the three blocks are disjoint, so the order of the stamping loop is immaterial
add_finder_patterns(m, size) ==
    [y \in 0..(size - 1) |-> [x \in 0..(size - 1) |->
        IF \E p \in FinderOrigins(size) : InFinderBlock(p, x, y)
        THEN LET p == CHOOSE q \in FinderOrigins(size) : InFinderBlock(q, x, y)
             IN  FinderCell(x - p[1], y - p[2])
        ELSE m[y][x]]]

\* mutant: the position of versions 2-6 for every version
get_alignment_positions_single(v, size) == << <<size - 7, size - 7>> >>

get_alignment_positions(v, size) ==
    IF 2 <= v /\ v <= 6 THEN << <<size - 7, size - 7>> >>
    ELSE << <<size - 9, size - 9>> >>

\* value written at offsets (i, j) of an alignment block
AlignmentCell(i, j) ==
    IF i = 0 \/ i = 4 \/ j = 0 \/ j = 4 THEN TRUE
    ELSE IF i = 2 /\ j = 2 THEN TRUE
    ELSE FALSE

AlignmentSkipped(x, y, size) ==
    (x < 9 /\ y < 9) \/ (x > size - 10 /\ y < 9) \/ (x < 9 /\ y > size - 10)

StampAlignment(m, px, py, size) ==
    [y \in 0..(size - 1) |-> [x \in 0..(size - 1) |->
        IF (x - px + 2) \in 0..4 /\ (y - py + 2) \in 0..4
        THEN AlignmentCell(x - px + 2, y - py + 2)
        ELSE m[y][x]]]

RECURSIVE StampAlignments(_, _, _)
StampAlignments(m, positions, size) ==
    IF positions = << >> THEN m
    ELSE LET p == Head(positions)
         IN  StampAlignments(
                 IF AlignmentSkipped(p[1], p[2], size) THEN m
                 ELSE StampAlignment(m, p[1], p[2], size),
                 Tail(positions), size)

add_alignment_patterns(m, v, size) ==
    IF v = 1 THEN m
    ELSE StampAlignments(m, get_alignment_positions(v, size), size)

\* mutant: both ranges one short, range(8, size - 9)
add_timing_patterns_short(m, size) ==
    [y \in 0..(size - 1) |-> [x \in 0..(size - 1) |->
        IF y = 6 /\ x \in 8..(size - 10) THEN (x % 2 = 0)
        ELSE IF x = 6 /\ y \in 8..(size - 10) THEN (y % 2 = 0)
        ELSE m[y][x]]]

\* range(8, size - 8) along row 6, then along column 6
add_timing_patterns(m, size) ==
    [y \in 0..(size - 1) |-> [x \in 0..(size - 1) |->
        IF y = 6 /\ x \in 8..(size - 9) THEN (x % 2 = 0)
        ELSE IF x = 6 /\ y \in 8..(size - 9) THEN (y % 2 = 0)
        ELSE m[y][x]]]

add_dark_module(m, v) == [m EXCEPT ![4 * v + 9][8] = TRUE]

\* the <<row, column>> cells written by the loop over range(15)
FormatCells ==
    {<<8, IF i # 6 THEN i ELSE 7>> : i \in 0..7} \cup {<<14 - i, 8>> : i \in 8..14}

\* format_info is all False
add_format_info(m, size) ==
    [y \in 0..(size - 1) |-> [x \in 0..(size - 1) |->
        IF <<y, x>> \in FormatCells THEN FALSE ELSE m[y][x]]]

is_function_pattern(x, y, size) ==
    IF (x < 7 /\ y < 7) \/ (x > size - 8 /\ y < 7) \/ (x < 7 /\ y > size - 8) THEN TRUE
    ELSE IF x = 6 \/ y = 6 THEN TRUE
    ELSE IF (x < 9 /\ y < 9) \/ (x > size - 9 /\ y < 9) \/ (x < 9 /\ y > size - 9) THEN TRUE
    ELSE FALSE

\* the nested loops of _add_data from row y on, bit_index being the counter on
\* entry to the row: cell x of the row is reached with the counter advanced by
\* the cells before it that took a bit; once bit_index reaches len(data) the
\* guard is false for every later cell
RECURSIVE AddDataRows(_, _, _, _, _)
AddDataRows(m, d, size, y, bit_index) ==
    IF y >= size \/ ~(bit_index < Len(d)) THEN m
    ELSE LET Free(x) == ~is_function_pattern(x, y, size)
             IndexAt(x) == bit_index + Cardinality({x2 \in 0..(x - 1) : Free(x2)})
             Takes(x) == Free(x) /\ IndexAt(x) < Len(d)
             row == [x \in 0..(size - 1) |->
                        IF Takes(x) THEN (d[IndexAt(x) + 1] # 0) ELSE m[y][x]]
             taken == Cardinality({x \in 0..(size - 1) : Takes(x)})
         IN  AddDataRows([m EXCEPT ![y] = row], d, size, y + 1, bit_index + taken)

add_data(m, d, size) == AddDataRows(m, d, size, 0, 0)

\* mutant: the checkerboard mask (x + y) % 2 in place of (x + y) % 3
apply_mask_mod2(m, size) ==
    [y \in 0..(size - 1) |-> [x \in 0..(size - 1) |->
        IF ~is_function_pattern(x, y, size) /\ (x + y) % 2 = 0
        THEN ~m[y][x]
        ELSE m[y][x]]]

apply_mask(m, size) ==
    [y \in 0..(size - 1) |-> [x \in 0..(size - 1) |->
        IF ~is_function_pattern(x, y, size) /\ (x + y) % 3 = 0
        THEN ~m[y][x]
        ELSE m[y][x]]]

\* build_matrix on a grid holding m: the grid after each of the seven steps
build_steps(m, d, v) ==
    LET size == calculate_size(v)
        m1 == add_finder_patterns(m, size)
        m2 == add_alignment_patterns(m1, v, size)
        m3 == add_timing_patterns(m2, size)
        m4 == add_dark_module(m3, v)
        m5 == add_format_info(m4, size)
        m6 == add_data(m5, d, size)
        m7 == apply_mask(m6, size)
    IN  [finder |-> m1, align |-> m2, timing |-> m3, dark |-> m4,
         format |-> m5, placed |-> m6, masked |-> m7]

build_matrix(m, d, v) == build_steps(m, d, v).masked

-----------------------------------------------------------------------------
(* QRCode: one object, generate called up to MaxCalls times *)

Versions == {1, 2, 7}

\* "", "7", "123", "HI", U+00B2
GenTexts == {<< >>, <<55>>, <<49, 50, 51>>, <<72, 73>>, <<178>>}

NoSteps(v) ==
    LET e == new_matrix(calculate_size(v))
    IN  [finder |-> e, align |-> e, timing |-> e, dark |-> e,
         format |-> e, placed |-> e, masked |-> e]

\* QRCode.__init__: the one MatrixConstructor, and its one grid, are made here
Init ==
    /\ version \in Versions
    /\ level \in Levels
    /\ heap = <<new_matrix(calculate_size(version))>>
    /\ self_matrix = 1
    /\ returned = << >>
    /\ calls = 0
    /\ text = << >>
    /\ encoded = [raised |-> FALSE, bits |-> << >>]
    /\ data = << >>
    /\ steps = NoSteps(version)
    /\ outcome = "new"

\* generate(t) when encode returns: build_matrix mutates the grid self.matrix
\* refers to and returns that reference
Generate(t) ==
    /\ self_matrix # 0
    /\ calls < MaxCalls
    /\ ~encode(version, level, t).raised
    /\ LET enc == encode(version, level, t)
           d == rs_encode(enc.bits)
           st == build_steps(heap[self_matrix], d, version)
       IN  /\ encoded' = enc
           /\ data' = d
           /\ steps' = st
           /\ heap' = [heap EXCEPT ![self_matrix] = st.masked]
    /\ returned' = Append(returned, self_matrix)
    /\ text' = t
    /\ calls' = calls + 1
    /\ outcome' = "returned"
    /\ UNCHANGED <<version, level, self_matrix>>

\* generate(t) when encode raises: the exception leaves generate before
\* build_matrix is reached
GenerateRaises(t) ==
    /\ self_matrix # 0
    /\ calls < MaxCalls
    /\ encode(version, level, t).raised
    /\ encoded' = encode(version, level, t)
    /\ text' = t
    /\ calls' = calls + 1
    /\ outcome' = "ValueError"
    /\ UNCHANGED <<version, level, heap, self_matrix, returned, data, steps>>

Next == \E t \in GenTexts : Generate(t) \/ GenerateRaises(t)

Spec == Init /\ [][Next]_vars

-----------------------------------------------------------------------------
(* DataEncoder alone: one encoder, encode called on one text *)

EncVersions == {1, 2, 10}

Repeat(c, n) == [i \in 1..n |-> c]

\* three U+0663, U+00E9, and texts longer than the capacity 100 holds
ExtraTexts ==
    {<<1635, 1635, 1635>>, <<233>>, Repeat(65, 12), Repeat(55, 30), Repeat(49, 9)}

EncTexts == (UNION {[1..n -> Alphabet] : n \in 0..MaxLen}) \cup ExtraTexts

InitEnc ==
    /\ version \in EncVersions
    /\ level \in Levels
    /\ text \in EncTexts
    /\ heap = << >>
    /\ self_matrix = 0
    /\ returned = << >>
    /\ calls = 0
    /\ encoded = [raised |-> FALSE, bits |-> << >>]
    /\ data = << >>
    /\ steps = << >>
    /\ outcome = "new"

EncodeCall ==
    /\ self_matrix = 0
    /\ calls = 0
    /\ encoded' = encode(version, level, text)
    /\ outcome' = IF encode(version, level, text).raised THEN "ValueError" ELSE "returned"
    /\ calls' = 1
    /\ UNCHANGED <<version, level, heap, self_matrix, returned, text, data, steps>>

NextEnc == EncodeCall

SpecEnc == InitEnc /\ [][NextEnc]_vars

-----------------------------------------------------------------------------
(* Properties of QRCode.generate and MatrixConstructor.build_matrix (Spec) *)

Size == calculate_size(version)

\* the grid the last returning generate call returned, as it is now
LastGrid == heap[returned[Len(returned)]]

Even(i) == i % 2 = 0

Masked(x, y) == (x + y) % 3 = 0

\* C1: generate is stateless across calls: the grid a call generate(t) returns
\* is the grid generate(t) returns on a freshly constructed generator, whatever
\* calls were made before it.
GenerateStateless ==
    outcome = "returned" =>
        LastGrid = build_matrix(new_matrix(Size),
                                rs_encode(encode(version, level, text).bits), version)

\* C2: once a generate call has returned a grid, no later generate call changes
\* a cell of that grid.
ReturnedGridsNeverChange ==
    [][\A i \in 1..Len(returned) : heap'[returned[i]] = heap[returned[i]]]_vars

\* C5: generate returns a grid and never raises, for every version, level and text.
GenerateNeverRaises == outcome # "ValueError"

\* the finder rule of the claim at block offsets (i, j)
FinderRule(i, j) == i \in {0, 6} \/ j \in {0, 6} \/ (i \in 2..4 /\ j \in 2..4)

FinderBlocksHold(m) ==
    \A p \in {<<0, 0>>, <<Size - 7, 0>>, <<0, Size - 7>>} :
        \A i \in 0..6 : \A j \in 0..6 :
            m[p[2] + j][p[1] + i] = FinderRule(i, j)

\* C7: in every grid generate returned, after any number of calls, the three
\* 7x7 finder blocks hold the finder pattern exactly, and they hold it after
\* each step of build_matrix from the finder step on (no later step changes
\* any of the 147 cells).
FinderPatternsIntact ==
    Len(returned) >= 1 =>
        /\ \A r \in 1..Len(returned) : FinderBlocksHold(heap[returned[r]])
        /\ \A f \in DOMAIN steps : FinderBlocksHold(steps[f])

FinderPatternsIntactWitness == Len(returned) = 2 /\ version = 7 /\ outcome = "returned"

\* C8 as stated: in the returned grid, for every i in 8..size-9 the timing cell
\* of row 6 at column i and the timing cell of column 6 at row i are dark iff
\* i is even.
TimingCellsIntact ==
    Len(returned) >= 1 =>
        \A i \in 8..(Size - 9) :
            LastGrid[6][i] = Even(i) /\ LastGrid[i][6] = Even(i)

\* C8 amended: in the returned grid the timing cell of column 6 at row i is
\* dark iff i is even for every i in 8..size-9, and the timing cell of row 6 at
\* column i is dark iff i is even for every i in 9..size-9; the row-6 cell at
\* column 8, set dark by the timing step, is set light by the format
\* information step; the dark module, data placement and masking change no
\* timing cell.
TimingCellsExceptFormatCell ==
    Len(returned) >= 1 =>
        /\ \A i \in 8..(Size - 9) :
            /\ steps.timing[6][i] = Even(i) /\ steps.timing[i][6] = Even(i)
            /\ steps.dark[6][i] = steps.timing[6][i]
            /\ steps.dark[i][6] = steps.timing[i][6]
            /\ steps.format[i][6] = steps.timing[i][6]
            /\ (i # 8 => steps.format[6][i] = steps.timing[6][i])
            /\ steps.placed[6][i] = steps.format[6][i]
            /\ steps.placed[i][6] = steps.format[i][6]
            /\ LastGrid[6][i] = steps.format[6][i]
            /\ LastGrid[i][6] = Even(i)
            /\ (i # 8 => LastGrid[6][i] = Even(i))
        /\ steps.format[6][8] = FALSE
        /\ LastGrid[6][8] = FALSE

TimingCellsWitness == Len(returned) >= 1 /\ version = 2 /\ outcome = "returned"

\* every cell of the grid as <<x, y>>, row-major
AllCells == [k \in 1..(Size * Size) |-> <<(k - 1) % Size, (k - 1) \div Size>>]

IsDataCell(c) == ~is_function_pattern(c[1], c[2], Size)

\* c_0, c_1, ...: the cells not classified as function-pattern cells, row-major
DataCells == SelectSeq(AllCells, IsDataCell)

\* C9: on a freshly constructed generator, with b the redundancy-stage output
\* of length n: n does not exceed the number of cells not classified as
\* function-pattern cells; for every k < n the final value of c_k at (x, y) is
\* dark iff (b[k] = 1) XOR ((x + y) mod 3 = 0); every cell classified as a
\* function-pattern cell has the value it had before data placement.
DataThenMask ==
    Len(returned) = 1 =>
        LET cells == DataCells
        IN  /\ Len(data) <= Len(cells)
            /\ \A k \in 1..Len(data) :
                LET x == cells[k][1]
                    y == cells[k][2]
                IN  /\ steps.placed[y][x] = (data[k] = 1)
                    /\ LastGrid[y][x] = ((data[k] = 1) # Masked(x, y))
            /\ \A y \in 0..(Size - 1) : \A x \in 0..(Size - 1) :
                is_function_pattern(x, y, Size) =>
                    /\ steps.placed[y][x] = steps.format[y][x]
                    /\ LastGrid[y][x] = steps.format[y][x]

\* a first call that placed a 1 bit on a masked cell and a 1 bit on an unmasked one
DataThenMaskWitness ==
    /\ Len(returned) = 1
    /\ outcome = "returned"
    /\ Len(data) > 10
    /\ LET cells == DataCells
       IN  /\ \E k \in 1..Len(data) :
                /\ data[k] = 1
                /\ Masked(cells[k][1], cells[k][2])
                /\ ~LastGrid[cells[k][2]][cells[k][1]]
           /\ \E k \in 1..Len(data) :
                /\ data[k] = 1
                /\ ~Masked(cells[k][1], cells[k][2])
                /\ LastGrid[cells[k][2]][cells[k][1]]

\* centre of the alignment block of the claim
AlignmentCentre == IF version <= 6 THEN Size - 7 ELSE Size - 9

\* the alignment rule of the claim at block offsets (i, j)
AlignmentRule(i, j) == i \in {0, 4} \/ j \in {0, 4} \/ (i = 2 /\ j = 2)

\* C10 as stated: for version >= 2 the returned grid holds the 5x5 alignment
\* pattern intact around its centre.
AlignmentIntact ==
    (Len(returned) >= 1 /\ version >= 2) =>
        \A i \in 0..4 : \A j \in 0..4 :
            LastGrid[AlignmentCentre + j - 2][AlignmentCentre + i - 2] = AlignmentRule(i, j)

\* C10 amended: for version >= 2 the alignment step stamps the 5x5 pattern
\* around (size-7, size-7) for versions 2-6 and (size-9, size-9) from version 7
\* on; the timing, dark module, format information and data placement steps
\* change none of its 25 cells, and masking inverts exactly those at (x, y)
\* with (x + y) mod 3 = 0, so that in the returned grid a cell of the block is
\* dark iff (pattern dark) XOR ((x + y) mod 3 = 0).  For version 1 the
\* alignment step changes no cell.
AlignmentMasked ==
    Len(returned) >= 1 =>
        IF version = 1 THEN steps.align = steps.finder
        ELSE \A i \in 0..4 : \A j \in 0..4 :
                LET x == AlignmentCentre + i - 2
                    y == AlignmentCentre + j - 2
                IN  /\ steps.align[y][x] = AlignmentRule(i, j)
                    /\ steps.format[y][x] = AlignmentRule(i, j)
                    /\ steps.placed[y][x] = AlignmentRule(i, j)
                    /\ LastGrid[y][x] = (AlignmentRule(i, j) # Masked(x, y))

AlignmentMaskedWitness ==
    /\ Len(returned) >= 1
    /\ outcome = "returned"
    /\ version = 7
    /\ LastGrid[AlignmentCentre][AlignmentCentre] = ~Masked(AlignmentCentre, AlignmentCentre)

-----------------------------------------------------------------------------
(* Properties of DataEncoder.encode (SpecEnc) *)

Capacity == get_capacity(version, level)

CountBits == get_character_count_bits(version, level)

\* the capacities the claim lists
ClaimedCapacity ==
    IF version = 1
    THEN (CASE level = "L" -> 41 [] level = "M" -> 34 [] level = "Q" -> 27 [] level = "H" -> 17)
    ELSE 100

\* every character of the text is a decimal digit
AllDecimalDigits(s) == \A i \in 1..Len(s) : IsDecimalChar(s[i])

\* C3: for every text and every (version, level), encode returns a sequence of
\* 0/1 values whose length is exactly the capacity: 41, 34, 27, 17 for version
\* 1 with L, M, Q, H and 100 for every other pair.
EncodeLengthIsCapacity ==
    calls = 1 =>
        /\ ~encoded.raised
        /\ Len(encoded.bits) = ClaimedCapacity
        /\ \A i \in 1..Len(encoded.bits) : encoded.bits[i] \in {0, 1}

\* C4: encode uses numeric mode (output starts 0001) if every character of the
\* text is a decimal digit, the zero-length text included, and byte mode
\* (output starts 0100) otherwise.
ModeSelection ==
    calls = 1 =>
        /\ ~encoded.raised
        /\ SubSeq(encoded.bits, 1, 4) =
               IF AllDecimalDigits(text) THEN <<0, 0, 0, 1>> ELSE <<0, 1, 0, 0>>

RECURSIVE Pow2(_)
Pow2(n) == IF n = 0 THEN 1 ELSE 2 * Pow2(n - 1)

\* bit j (1 = most significant) of value written on width bits
BitOf(value, width, j) == (value \div Pow2(width - j)) % 2

\* value of the g-th block of 3 digits of the text
GroupValue(g) ==
    100 * DigitValue(text[3 * g - 2]) + 10 * DigitValue(text[3 * g - 1])
        + DigitValue(text[3 * g])

\* bit p of: mode indicator, count indicator, the k 10-bit groups, terminator
ExpectedBit(p) ==
    IF p <= 4 THEN (IF p = 4 THEN 1 ELSE 0)
    ELSE IF p <= 4 + CountBits THEN BitOf(Len(text), CountBits, p - 4)
    ELSE IF p <= 4 + CountBits + 10 * (Len(text) \div 3)
         THEN BitOf(GroupValue(((p - 4 - CountBits - 1) \div 10) + 1), 10,
                    ((p - 4 - CountBits - 1) % 10) + 1)
    ELSE 0

IsGroupedDigitString ==
    Len(text) >= 3 /\ Len(text) % 3 = 0 /\ AllDecimalDigits(text)

\* C6 as stated: for every digit string of length 3k, k >= 1, and every
\* (version, level), the output holds, right after the mode and count
\* indicators, k 10-bit groups, the g-th the zero-padded value of the g-th
\* block of 3 digits.
GroupingLaw ==
    (calls = 1 /\ IsGroupedDigitString) =>
        /\ ~encoded.raised
        /\ Len(encoded.bits) >= 4 + CountBits + 10 * (Len(text) \div 3)
        /\ \A p \in 1..(4 + CountBits + 10 * (Len(text) \div 3)) :
            encoded.bits[p] = ExpectedBit(p)

\* C6 amended: for every digit string of length 3k, k >= 1, and every
\* (version, level), the output is the mode indicator, the count indicator,
\* the k 10-bit groups (the g-th the zero-padded value of the g-th block of 3
\* digits) and the terminator, cut off at capacity bits: it holds all k groups
\* whenever 4 + count width + 10k <= capacity.
GroupingLawWithinCapacity ==
    (calls = 1 /\ IsGroupedDigitString) =>
        /\ ~encoded.raised
        /\ Len(encoded.bits) = Capacity
        /\ \A p \in 1..Capacity :
            p <= 4 + CountBits + 10 * (Len(text) \div 3) + 4 =>
                encoded.bits[p] = ExpectedBit(p)

\* two groups that fit, the first with leading zeros
GroupingLawWitness ==
    /\ calls = 1
    /\ IsGroupedDigitString
    /\ Len(text) = 6
    /\ text[1] = 48 /\ text[3] = 55
    /\ 4 + CountBits + 20 <= Capacity
    /\ ~encoded.raised

\* whenever encode returns, its output has capacity bits
EncodeLengthWhenReturned ==
    (calls = 1 /\ ~encoded.raised) => Len(encoded.bits) = ClaimedCapacity

====
